---- MODULE Spec2Model ----
(***************************************************************************)
(* Model of socketio-server's in-process adapter (adapter.rs): the room    *)
(* registry, the broadcast matcher (apply_opts), fan-out delivery and ack  *)
(* aggregation.                                                            *)
(***************************************************************************)
EXTENDS Integers, Sequences, FiniteSets, TLC

\* ------------------------------------------------------------------ bounds

\* Socket ids in use are 1..MaxSid.
MaxSid == 2

\* BroadcastOptions::default().sid
DefaultSid == -1

Sids == 1..MaxSid

\* Room names (Room = String).
Rooms == {"R1", "R2", "E"}

\* Vec<Room> arguments: every list of at most two room names, repeats included.
RoomLists ==
    {<<>>} \cup {<<r>> : r \in Rooms} \cup {<<r1, r2>> : r1 \in Rooms, r2 \in Rooms}

\* enum BroadcastFlags; Timeout(Duration) is modelled with one duration D.
BroadcastFlags == {"Local", "Broadcast", "Timeout"}

\* struct BroadcastOptions
BroadcastOptions ==
    [flags : SUBSET BroadcastFlags, rooms : RoomLists, except : RoomLists,
     sid : Sids \cup {DefaultSid}]

\* The options the matcher is queried with: target lists over R1 and R2,
\* except lists over E and R2, with and without the Broadcast flag.
TargetLists ==
    {<<>>} \cup {<<r>> : r \in {"R1", "R2"}}
           \cup {<<r1, r2>> : r1 \in {"R1", "R2"}, r2 \in {"R1", "R2"}}

ExceptLists == {<<>>, <<"E">>, <<"R2">>, <<"E", "R2">>}

MatchFlags == {{}, {"Local"}, {"Broadcast"}, {"Broadcast", "Timeout"}}

MatchOptions ==
    [flags : MatchFlags, rooms : TargetLists, except : ExceptLists,
     sid : Sids \cup {DefaultSid}]

\* The calls of the delivery runs: the registry holds R1 and E.
BcastRoomLists == {<<"R1">>, <<"E">>, <<"R1", "E">>}

BcastOptions ==
    [flags : {{}, {"Broadcast"}}, rooms : {<<>>, <<"R1">>}, except : {<<>>, <<"E">>},
     sid : Sids \cup {DefaultSid}]

\* The calls of the ack runs: the registry holds R1.
AckRoomLists == {<<"R1">>}

AckOptions ==
    [flags : {{}, {"Timeout"}, {"Broadcast"}, {"Broadcast", "Timeout"}},
     rooms : {<<>>, <<"R1">>}, except : {<<>>, <<"R1">>},
     sid : Sids \cup {DefaultSid}]

\* The calls of the bulk runs: the options add_sockets and del_sockets are
\* given, and the rooms they add to or remove from.
BulkOptions ==
    [flags : {{}, {"Broadcast"}}, rooms : {<<>>, <<"R1">>}, except : {<<>>, <<"E">>},
     sid : {DefaultSid, 1}]

BulkRoomLists == {<<>>, <<"R2">>, <<"R1", "E">>, <<"R2", "R2">>}

\* The namespaces of the packets encoded: none, the default one, one with
\* and one without the leading slash, one that ends in a digit.
CodecNamespaces == {<<>>, <<"/">>, <<"/", "c">>, <<"c">>, <<"/", "c", "1">>}

\* The types a text handed to decode starts with: the seven packet types and
\* a character that is none.
FrameTypes == {"0", "1", "2", "3", "4", "5", "6", "9"}

\* The ack ids a text carries: none, 0, 1, 12.
FrameAcks == {<<>>, <<"0">>, <<"1">>, <<"1", "2">>}

\* The threads that call the adapter at the same time.
Threads == {"t1", "t2"}

\* The calls of the lock runs: add_all, del and del_all on R1 and E next to
\* socket_rooms and a matcher query for R1 except E.
LockAddLists == {<<"R1">>, <<"R1", "E">>}

LockDelLists == {<<"E">>, <<"R1", "E">>}

LockOptions ==
    {[flags |-> {"Broadcast"}, rooms |-> <<"R1">>, except |-> <<"E">>, sid |-> DefaultSid]}

\* The calls of the removal runs: del_all next to add_all and to add_sockets
\* on every socket and on the members of R1.
FinalAddLists == {<<"R1">>, <<"R1", "E">>}

FinalOptions ==
    {[flags |-> {"Broadcast"}, rooms |-> rs, except |-> <<>>, sid |-> DefaultSid] :
        rs \in {<<>>, <<"R1">>}}

\* impl Default for BroadcastOptions
DefaultOptions ==
    [flags |-> {}, rooms |-> <<>>, except |-> <<>>, sid |-> DefaultSid]

\* -------------------------------------------------------------------- state

VARIABLES
    rooms,      \* LocalAdapter.rooms: HashMap<String, HashSet<i64>>
    live,       \* sids of the sockets the namespace currently holds
    added,      \* history: <<sid, room>> added by add_all and not removed since
    call,       \* the call that has just returned: its name, arguments, result
    delivery,   \* broadcast: the resolved Vec, the sends attempted, the result
    stream,     \* broadcast_with_ack: the returned stream (BufferUnordered)
    futs,       \* per target: where its send_with_ack future stands
    runq,       \* FuturesUnordered's ready-to-run queue, oldest first
    yielded,    \* the items the stream has produced, in order: <<sid, outcome>>
    completed,  \* history: the targets in the order their futures completed
    pkt,        \* codec: the Packet handed to try_into
    frame,      \* codec: how the text handed to try_from was put together
    wire,       \* codec: the result of try_into, or the text that came in
    decoded,    \* codec: the result of try_from
    lock,       \* concurrent calls: the RwLock around rooms, who holds it
    th,         \* concurrent calls: per thread, the call it runs and where it is
    removed,    \* history: per sid, whether a del_all of it returned, undisturbed
                \* by an inserting call ("clean") or not ("dirty"), and no
                \* inserting call has started since
    evals       \* history: per thread, what its matcher query gives on each
                \* registry state there has been since the query started

regvars == <<rooms, live, added>>
ackvars == <<stream, futs, runq, yielded, completed>>
codecvars == <<pkt, frame, wire, decoded>>
threadvars == <<lock, th, removed, evals>>
vars ==
    <<rooms, live, added, call, delivery, stream, futs, runq, yielded, completed,
      pkt, frame, wire, decoded, lock, th, removed, evals>>

Range(s) == {s[i] : i \in DOMAIN s}

\* Every order a HashMap iteration can give the elements of a set.
Orders(S) == {f \in [1..Cardinality(S) -> S] : Range(f) = S}

\* ----------------------------------------------------------- room registry

\* Mutant: rooms_map.insert(room, HashSet::from([sid])) replaces the member set.
entry_insert_overwrite(m, room, sid) ==
    IF room \in DOMAIN m
    THEN [m EXCEPT ![room] = {sid}]
    ELSE m @@ (room :> {sid})

\* rooms_map.entry(room).or_insert_with(HashSet::new).insert(sid)
entry_insert(m, room, sid) ==
    IF room \in DOMAIN m
    THEN [m EXCEPT ![room] = @ \cup {sid}]
    ELSE m @@ (room :> {sid})

RECURSIVE add_all(_, _, _)
add_all(m, sid, rs) ==
    IF rs = <<>> THEN m
    ELSE add_all(entry_insert(m, Head(rs), sid), sid, Tail(rs))

\* if let Some(room) = rooms_map.get_mut(&room) { room.remove(&sid); }
get_mut_remove(m, room, sid) ==
    IF room \in DOMAIN m THEN [m EXCEPT ![room] = @ \ {sid}] ELSE m

RECURSIVE del(_, _, _)
del(m, sid, rs) ==
    IF rs = <<>> THEN m
    ELSE del(get_mut_remove(m, Head(rs), sid), sid, Tail(rs))

del_all(m, sid) == [room \in DOMAIN m |-> m[room] \ {sid}]

socket_rooms(m, sid) == {room \in DOMAIN m : sid \in m[room]}

\* ---------------------------------------------------------------- namespace

\* ns.get_socket(sid): Some(handle) iff the socket is connected.
get_socket(l, sid) == IF sid \in l THEN {sid} ELSE {}

\* ns.get_sockets(): every connected socket.
get_sockets(l) == l

\* ------------------------------------------------------------------ matcher

RECURSIVE get_except_sids(_, _)
get_except_sids(m, except) ==
    IF except = <<>> THEN {}
    ELSE (IF Head(except) \in DOMAIN m THEN m[Head(except)] ELSE {})
         \cup get_except_sids(m, Tail(except))

\* The closure of the second .filter() of apply_opts.
sid_filter(except_sids, opts, sid) ==
    /\ sid \notin except_sids
    /\ ("Broadcast" \in opts.flags /\ sid # opts.sid)

\* if rooms.len() > 0: the members of the named rooms, filtered, deduplicated,
\* looked up in the namespace.
room_targets(m, l, opts, except_sids) ==
    LET named   == {room \in DOMAIN m : room \in Range(opts.rooms)}
        flat    == {<<room, sid>> : room \in named, sid \in Sids}
        members == {p \in flat : p[2] \in m[p[1]]}
        kept    == {p \in members : sid_filter(except_sids, opts, p[2])}
        unique  == {p[2] : p \in kept}
    IN  UNION {get_socket(l, sid) : sid \in unique}

\* Mutant: the namespace-wide branch also drops the socket opts.sid names.
namespace_targets_self_excluded(m, l, opts, except_sids) ==
    {sid \in get_sockets(l) : sid \notin except_sids /\ sid # opts.sid}

\* else if flags.contains(Broadcast): every socket of the namespace but the excepted.
namespace_targets(m, l, opts, except_sids) ==
    {sid \in get_sockets(l) : sid \notin except_sids}

\* Mutant: the single-socket branch applies the except list.
single_target_excepted(m, l, opts, except_sids) ==
    {sid \in get_socket(l, opts.sid) : sid \notin except_sids}

\* else: the socket opts.sid names, if the namespace holds it.
single_target(m, l, opts, except_sids) ==
    get_socket(l, opts.sid)

\* Mutant: the Broadcast flag is tested before rooms.len().
apply_opts_flag_first(m, l, opts) ==
    LET except_sids == get_except_sids(m, opts.except) IN
    IF "Broadcast" \in opts.flags
    THEN namespace_targets(m, l, opts, except_sids)
    ELSE IF Len(opts.rooms) > 0
    THEN room_targets(m, l, opts, except_sids)
    ELSE single_target(m, l, opts, except_sids)

\* The ids of the handles apply_opts returns (their order is the HashMap's).
apply_opts(m, l, opts) ==
    LET except_sids == get_except_sids(m, opts.except) IN
    IF Len(opts.rooms) > 0
    THEN room_targets(m, l, opts, except_sids)
    ELSE IF "Broadcast" \in opts.flags
    THEN namespace_targets(m, l, opts, except_sids)
    ELSE single_target(m, l, opts, except_sids)

\* sockets(rooms): the ids apply_opts resolves for {rooms, ..Default}.
sockets(m, l, rs) == apply_opts(m, l, [DefaultOptions EXCEPT !.rooms = rs])

\* fetch_sockets(opts) is apply_opts(opts).
fetch_sockets(m, l, opts) == apply_opts(m, l, opts)

\* ---------------------------------------------------------------- broadcast

\* sockets.into_iter().map(|socket| socket.send(..)).collect::<Result<(), Error>>()
\* over the resolved Vec ts, where the write fails on the sockets of `failing`:
\* the sends made, in order, and the result (0: Ok(()); a sid: that send's Err).
RECURSIVE broadcast(_, _)
broadcast(ts, failing) ==
    IF ts = <<>> THEN [sent |-> <<>>, result |-> 0]
    ELSE IF Head(ts) \in failing
    THEN [sent |-> <<Head(ts)>>, result |-> Head(ts)]
    ELSE LET rest == broadcast(Tail(ts), failing)
         IN  [sent |-> <<Head(ts)>> \o rest.sent, result |-> rest.result]

\* ------------------------------------------------- add_sockets, del_sockets

\* The add_all futures are never awaited.
add_sockets_unawaited(m, ts, rs) == m

\* join_all over futs: one add_all(socket.sid, rooms.clone()) per resolved
\* socket. No add_all awaits anything, so each future completes in its first
\* poll and join_all polls them in the order of the Vec ts.
RECURSIVE add_sockets(_, _, _)
add_sockets(m, ts, rs) ==
    IF ts = <<>> THEN m ELSE add_sockets(add_all(m, Head(ts), rs), Tail(ts), rs)

\* join_all over futs: one del(socket.sid, rooms.clone()) per resolved socket.
RECURSIVE del_sockets(_, _, _)
del_sockets(m, ts, rs) ==
    IF ts = <<>> THEN m ELSE del_sockets(del(m, Head(ts), rs), Tail(ts), rs)

\* ---------------------------------------------------------- disconnect_socket

\* .map(|socket| socket.disconnect()).collect::<Result<(), Error>>() over the
\* resolved Vec ts, where disconnect fails on the sockets of `failing`: the
\* disconnects requested, in order, and the result (0: Ok(()); a sid: its Err).
RECURSIVE disconnect_socket(_, _)
disconnect_socket(ts, failing) ==
    IF ts = <<>> THEN [sent |-> <<>>, result |-> 0]
    ELSE IF Head(ts) \in failing
    THEN [sent |-> <<Head(ts)>>, result |-> Head(ts)]
    ELSE LET rest == disconnect_socket(Tail(ts), failing)
         IN  [sent |-> <<Head(ts)>> \o rest.sent, result |-> rest.result]

\* ------------------------------------------------------- broadcast_with_ack

\* What a send_with_ack future resolves to: the decoded ack, or an AckError.
Outcomes == {"ack", "mismatch", "timeout"}

YieldedSids(ys) == {ys[i][1] : i \in DOMAIN ys}

\* The buffered stream as poll_next sees it.
StreamState == [stream |-> stream, futs |-> futs, runq |-> runq, yielded |-> yielded]

\* in_progress_queue: the futures taken off the iterator and not yet yielded.
in_progress(st) ==
    {sid \in DOMAIN st.futs : st.futs[sid] # "queued" /\ sid \notin YieldedSids(st.yielded)}

\* buffer_unordered(count), filling: while in_progress_queue.len() < max, take the
\* next future off stream::iter(ack_futs) and push it; the iterator's end marks
\* the fused stream done.
RECURSIVE fill(_)
fill(st) ==
    IF Cardinality(in_progress(st)) < st.stream.count
    THEN LET ts     == st.stream.targets
             queued == {i \in DOMAIN ts : st.futs[ts[i]] = "queued"}
         IN  IF queued = {}
             THEN [st EXCEPT !.stream.is_done = TRUE]
             ELSE LET i == CHOOSE j \in queued : \A k \in queued : j <= k
                  IN  fill([st EXCEPT !.futs[ts[i]] = "pushed",
                                      !.runq = Append(@, ts[i])])
    ELSE st

\* Mutant: buffered(count): the outcomes leave in request order, so the next
\* one out is that of the first target not yet yielded, once it is complete.
run_ordered(st) ==
    LET ts      == st.stream.targets
        started == [sid \in DOMAIN st.futs |->
                      IF st.futs[sid] = "pushed" THEN "pending" ELSE st.futs[sid]]
        n       == Len(st.yielded) + 1
        stays(sid) == started[sid] \in Outcomes
    IN  IF n <= Len(ts) /\ started[ts[n]] \in Outcomes
        THEN LET others(sid) == stays(sid) /\ sid # ts[n]
             IN  [st |-> [st EXCEPT !.futs = started, !.runq = SelectSeq(@, others)],
                  item |-> <<ts[n], started[ts[n]]>>]
        ELSE [st |-> [st EXCEPT !.futs = started, !.runq = SelectSeq(@, stays)],
              item |-> <<>>]

\* buffer_unordered(count), polling in_progress_queue: the futures of the
\* ready-to-run queue are polled oldest first; one just pushed starts its
\* send_with_ack and stays pending, one that has completed is the item.
RECURSIVE run(_)
run(st) ==
    IF st.runq = <<>> THEN [st |-> st, item |-> <<>>]
    ELSE LET sid == Head(st.runq)
         IN  IF st.futs[sid] = "pushed"
             THEN run([st EXCEPT !.runq = Tail(@), !.futs[sid] = "pending"])
             ELSE [st |-> [st EXCEPT !.runq = Tail(@)], item |-> <<sid, st.futs[sid]>>]

\* Mutant: the stream ends with the first failed outcome (as a fail-fast
\* collect would).
poll_result_fail_fast(r) ==
    IF r.item # <<>>
    THEN [r.st EXCEPT !.yielded = Append(@, r.item),
                      !.stream.state = IF r.item[2] = "ack" THEN "running" ELSE "done",
                      !.stream.blocked = FALSE]
    ELSE IF in_progress(r.st) = {} /\ r.st.stream.is_done
    THEN [r.st EXCEPT !.stream.state = "done"]
    ELSE [r.st EXCEPT !.stream.state = "running",
                      !.stream.blocked =
                          \E sid \in in_progress(r.st) : r.st.futs[sid] \in Outcomes]

\* buffer_unordered(count), the result of a poll: Some(item); or None once
\* in_progress_queue is empty and the iterator is done; or Pending. `blocked`
\* notes a Pending returned while a completed outcome was waiting.
poll_result(r) ==
    IF r.item # <<>>
    THEN [r.st EXCEPT !.yielded = Append(@, r.item),
                      !.stream.state = "running",
                      !.stream.blocked = FALSE]
    ELSE IF in_progress(r.st) = {} /\ r.st.stream.is_done
    THEN [r.st EXCEPT !.stream.state = "done"]
    ELSE [r.st EXCEPT !.stream.state = "running",
                      !.stream.blocked =
                          \E sid \in in_progress(r.st) : r.st.futs[sid] \in Outcomes]

\* One poll of the stream broadcast_with_ack returned.
poll_next(st) == poll_result(run(fill(st)))

\* -------------------------------------------------------------- packet codec

\* A String is the sequence of its characters.
Digits == {"0", "1", "2", "3", "4", "5", "6", "7", "8", "9"}

DigitChars == <<"0", "1", "2", "3", "4", "5", "6", "7", "8", "9">>

digit_value(c) == CHOOSE n \in 0..9 : DigitChars[n + 1] = c

\* take_while_ref(|c| set.contains(c)): the longest prefix of s it accepts.
RECURSIVE take_while_in(_, _)
take_while_in(s, set) ==
    IF s = <<>> \/ Head(s) \notin set THEN <<>>
    ELSE <<Head(s)>> \o take_while_in(Tail(s), set)

\* take_while_ref(|c| !set.contains(c))
RECURSIVE take_while_not_in(_, _)
take_while_not_in(s, set) ==
    IF s = <<>> \/ Head(s) \in set THEN <<>>
    ELSE <<Head(s)>> \o take_while_not_in(Tail(s), set)

\* The iterator once the adaptor has consumed the prefix taken.
after(s, taken) == SubSeq(s, Len(taken) + 1, Len(s))

\* chars.next() with the item ignored: one more character is consumed, if any.
skip_next(s) == IF s = <<>> THEN <<>> ELSE Tail(s)

\* The number a run of decimal digits denotes.
RECURSIVE number(_)
number(ds) ==
    IF ds = <<>> THEN 0
    ELSE 10 * number(SubSeq(ds, 1, Len(ds) - 1)) + digit_value(ds[Len(ds)])

\* str::parse::<u32>().unwrap_or(0): no digits give 0. A value past u32::MAX
\* gives 0 as well; it takes a run of ten digits, longer than any run here.
parse_u32_or_0(ds) == IF ds = <<>> THEN 0 ELSE number(ds)

\* Result values: Ok(v), Err(e), and the unwinding of todo!().
Ok(v) == [kind |-> "Ok", value |-> v]
Err(e) == [kind |-> "Err", error |-> e]
Panic == [kind |-> "Panic"]

\* Option values.
None == [is_some |-> FALSE]
Some(v) == [is_some |-> TRUE, value |-> v]

\* serde_json::Value: [null |-> TRUE], [num |-> n], [str |-> chars],
\* [arr |-> <<values>>], [obj |-> << <<key chars, value>> >>].
JNull == [null |-> TRUE]
JNum(n) == [num |-> n]
JStr(s) == [str |-> s]
JArr(vs) == [arr |-> vs]
JObj(ms) == [obj |-> ms]

Quote == "\""

\* The decimal digits of a natural number.
RECURSIVE digits_of(_)
digits_of(n) ==
    IF n < 10 THEN <<DigitChars[n + 1]>>
    ELSE digits_of(n \div 10) \o <<DigitChars[(n % 10) + 1]>>

\* serde_json::to_string: compact text, no whitespace. Numbers are naturals
\* and strings hold no character that needs escaping.
RECURSIVE to_string(_), to_string_elems(_), to_string_members(_)
to_string(v) ==
    IF "null" \in DOMAIN v THEN <<"n", "u", "l", "l">>
    ELSE IF "num" \in DOMAIN v THEN digits_of(v.num)
    ELSE IF "str" \in DOMAIN v THEN <<Quote>> \o v.str \o <<Quote>>
    ELSE IF "arr" \in DOMAIN v THEN <<"[">> \o to_string_elems(v.arr) \o <<"]">>
    ELSE <<"{">> \o to_string_members(v.obj) \o <<"}">>

to_string_elems(vs) ==
    IF vs = <<>> THEN <<>>
    ELSE IF Len(vs) = 1 THEN to_string(vs[1])
    ELSE to_string(vs[1]) \o <<",">> \o to_string_elems(Tail(vs))

to_string_members(ms) ==
    IF ms = <<>> THEN <<>>
    ELSE LET m == <<Quote>> \o ms[1][1] \o <<Quote, ":">> \o to_string(ms[1][2])
         IN  IF Len(ms) = 1 THEN m ELSE m \o <<",">> \o to_string_members(Tail(ms))

\* serde_json's parser on text without whitespace, escapes, signs or
\* fractions: a value and the text left after it, or a syntax error.
Parsed(v, rest) == [ok |-> TRUE, value |-> v, rest |-> rest]
SyntaxError == [ok |-> FALSE]

parse_string(s) ==
    LET body == take_while_not_in(s, {Quote})
        rest == after(s, body)
    IN  IF rest = <<>> THEN SyntaxError ELSE Parsed(JStr(body), Tail(rest))

parse_number(s, ds) ==
    IF Len(ds) > 1 /\ Head(ds) = "0" THEN SyntaxError
    ELSE Parsed(JNum(number(ds)), after(s, ds))

RECURSIVE parse_value(_), parse_elems(_, _), parse_members(_, _)
RECURSIVE after_elem(_, _), after_key(_, _), after_member(_, _, _)
parse_value(s) ==
    IF s = <<>> THEN SyntaxError
    ELSE IF Head(s) = Quote THEN parse_string(Tail(s))
    ELSE IF Head(s) \in Digits THEN parse_number(s, take_while_in(s, Digits))
    ELSE IF Head(s) = "["
    THEN IF Len(s) >= 2 /\ s[2] = "]"
         THEN Parsed(JArr(<<>>), after(s, <<"[", "]">>))
         ELSE parse_elems(Tail(s), <<>>)
    ELSE IF Head(s) = "{"
    THEN IF Len(s) >= 2 /\ s[2] = "}"
         THEN Parsed(JObj(<<>>), after(s, <<"{", "}">>))
         ELSE parse_members(Tail(s), <<>>)
    ELSE IF Len(s) >= 4 /\ SubSeq(s, 1, 4) = <<"n", "u", "l", "l">>
    THEN Parsed(JNull, after(s, <<"n", "u", "l", "l">>))
    ELSE SyntaxError

\* The elements of an array, acc being those already parsed.
parse_elems(s, acc) == after_elem(parse_value(s), acc)

after_elem(r, acc) ==
    IF ~r.ok \/ r.rest = <<>> THEN SyntaxError
    ELSE IF Head(r.rest) = ","
    THEN parse_elems(Tail(r.rest), Append(acc, r.value))
    ELSE IF Head(r.rest) = "]"
    THEN Parsed(JArr(Append(acc, r.value)), Tail(r.rest))
    ELSE SyntaxError

\* The members of an object, acc being those already parsed.
parse_members(s, acc) ==
    IF s = <<>> \/ Head(s) # Quote THEN SyntaxError
    ELSE after_key(parse_string(Tail(s)), acc)

after_key(k, acc) ==
    IF ~k.ok \/ k.rest = <<>> \/ Head(k.rest) # ":" THEN SyntaxError
    ELSE after_member(k.value.str, parse_value(Tail(k.rest)), acc)

after_member(key, r, acc) ==
    IF ~r.ok \/ r.rest = <<>> THEN SyntaxError
    ELSE IF Head(r.rest) = ","
    THEN parse_members(Tail(r.rest), Append(acc, <<key, r.value>>))
    ELSE IF Head(r.rest) = "}"
    THEN Parsed(JObj(Append(acc, <<key, r.value>>)), Tail(r.rest))
    ELSE SyntaxError

\* serde_json::from_str::<Value>: the whole text must be one value.
json_result(r) == IF r.ok /\ r.rest = <<>> THEN Ok(r.value) ELSE Err("Json")

from_str(s) == json_result(parse_value(s))

\* struct Packet<T> { inner: PacketData<T>, ns: String }; a payload of type T
\* is held as the serde_json::Value it serializes to.
Packet(inner, ns) == [inner |-> inner, ns |-> ns]

\* enum PacketData<T>
PConnect(data) == [kind |-> "Connect", data |-> data]
PDisconnect == [kind |-> "Disconnect"]
PEvent(event, data) == [kind |-> "Event", event |-> event, data |-> data]
PAck(id) == [kind |-> "Ack", id |-> id]
PConnectError(message) == [kind |-> "ConnectError", message |-> message]
PBinaryEvent(event, data) == [kind |-> "BinaryEvent", event |-> event, data |-> data]
PBinaryAck(data) == [kind |-> "BinaryAck", data |-> data]

\* PacketData::index
index(inner) ==
    CASE inner.kind = "Connect" -> 0
      [] inner.kind = "Disconnect" -> 1
      [] inner.kind = "Event" -> 2
      [] inner.kind = "Ack" -> 3
      [] inner.kind = "ConnectError" -> 4
      [] inner.kind = "BinaryEvent" -> 5
      [] inner.kind = "BinaryAck" -> 6

\* #[derive(Serialize)] struct ConnectErrorPacket { message: String }
MessageKey == <<"m", "e", "s", "s", "a", "g", "e">>
connect_error_value(message) == JObj(<< <<MessageKey, JStr(message)>> >>)

\* #[derive(Deserialize)] for ConnectErrorPacket: an object with a string
\* member "message"; other members are ignored.
connect_error_from_str(s) ==
    LET r == from_str(s)
    IN  IF r.kind # "Ok" THEN r
        ELSE IF "obj" \notin DOMAIN r.value THEN Err("Json")
        ELSE LET ms == r.value.obj
                 hits == {i \in DOMAIN ms : ms[i][1] = MessageKey}
             IN  IF Cardinality(hits) # 1 THEN Err("Json")
                 ELSE LET v == ms[CHOOSE i \in hits : TRUE][2]
                      IN  IF "str" \in DOMAIN v THEN Ok(v.str) ELSE Err("Json")

\* The Event arm serializes the tuple (event, data): a two-element array whose
\* second element is the whole payload.
encode_event(event, data) == to_string(JArr(<<JStr(event), data>>))

\* impl TryInto<String> for Packet<T>
encode(p) ==
    LET res == digits_of(index(p.inner))
               \o (IF p.ns # <<>> /\ p.ns # <<"/">> THEN p.ns \o <<",">> ELSE <<>>)
    IN  CASE p.inner.kind = "Connect" ->
               IF p.inner.data.is_some
               THEN Ok(res \o to_string(p.inner.data.value))
               ELSE Ok(res)
          [] p.inner.kind = "Disconnect" -> Ok(res)
          [] p.inner.kind = "Event" ->
               Ok(res \o encode_event(p.inner.event, p.inner.data))
          [] p.inner.kind = "Ack" -> Panic
          [] p.inner.kind = "ConnectError" ->
               Ok(res \o to_string(connect_error_value(p.inner.message)))
          [] p.inner.kind = "BinaryEvent" -> Panic
          [] p.inner.kind = "BinaryAck" -> Panic

\* deserialize_event_packet: the text must be an array whose first element is
\* a string; the payload is the array of the elements after it.
deserialize_event_packet(data) ==
    LET r == from_str(data)
    IN  IF r.kind # "Ok" THEN r
        ELSE IF "arr" \notin DOMAIN r.value THEN Err("InvalidEventName")
        ELSE LET packet == r.value.arr
             IN  IF packet = <<>> THEN Err("InvalidEventName")
                 ELSE IF "str" \notin DOMAIN packet[1] THEN Err("InvalidEventName")
                 ELSE Ok([event |-> packet[1].str, payload |-> JArr(Tail(packet))])

\* deserialize_packet::<Value>
deserialize_packet(data) ==
    IF data = <<>> THEN Ok(None)
    ELSE LET r == from_str(data)
         IN  IF r.kind = "Ok" THEN Ok(Some(r.value)) ELSE r

\* deserialize_packet::<ConnectErrorPacket>
deserialize_connect_error(data) ==
    IF data = <<>> THEN Ok(None)
    ELSE LET r == connect_error_from_str(data)
         IN  IF r.kind = "Ok" THEN Ok(Some(r.value)) ELSE r

\* The match on the type character, given the namespace and the text left.
decode_inner(c, ns, data) ==
    CASE c = "0" ->
           LET r == deserialize_packet(data)
           IN  IF r.kind = "Ok" THEN Ok(Packet(PConnect(r.value), ns)) ELSE r
      [] c = "1" -> Ok(Packet(PDisconnect, ns))
      [] c = "2" ->
           LET r == deserialize_event_packet(data)
           IN  IF r.kind = "Ok"
               THEN Ok(Packet(PEvent(r.value.event, r.value.payload), ns))
               ELSE r
      [] c = "3" -> Panic
      [] c = "4" ->
           LET r == deserialize_connect_error(data)
           IN  IF r.kind # "Ok" THEN r
               ELSE IF ~r.value.is_some THEN Err("InvalidPacketType")
               ELSE Ok(Packet(PConnectError(r.value.value), ns))
      [] c = "5" -> Panic
      [] c = "6" -> Panic
      [] OTHER -> Err("InvalidPacketType")

\* impl TryFrom<String> for Packet<Value>
decode(value) ==
    IF value = <<>> THEN Err("InvalidPacketType")
    ELSE LET c == Head(value)
             chars1 == Tail(value)
             att == take_while_in(chars1, Digits \ {"-"})
             attachments == parse_u32_or_0(att)
             chars2 == after(chars1, att)
             chars3 == IF attachments > 0 THEN skip_next(chars2) ELSE chars2
             ns0 == take_while_not_in(chars3, {",", "{", "["} \cup Digits)
             chars4 == after(chars3, ns0)
             chars5 == IF ns0 # <<>> THEN skip_next(chars4) ELSE chars4
             ns == IF ns0 # <<>> /\ Head(ns0) = "/" THEN ns0 ELSE <<"/">> \o ns0
             ack == take_while_in(chars5, Digits)
             data == after(chars5, ack)
         IN  decode_inner(c, ns, data)

\* ------------------------------------------------------------------ actions

NoCall == [op |-> "none", opts |-> DefaultOptions, sid |-> DefaultSid, ret |-> {}]

NoDelivery == [targets |-> <<>>, failing |-> {}, sent |-> <<>>, result |-> 0]

\* No packet to encode, no text to decode, no result yet.
NoPacket == [inner |-> [kind |-> "None"], ns |-> <<>>]
NoFrame == [present |-> FALSE]
NoResult == [kind |-> "None"]

\* The adapter is shared between tasks. Each thread runs one call at a time,
\* step by step; rooms is behind a std::sync::RwLock, which lock describes.
IdleThread ==
    [pc |-> "idle", op |-> "none", sid |-> DefaultSid, rs |-> <<>>,
     opts |-> DefaultOptions, todo |-> <<>>, done |-> 0, except |-> {}, ids |-> {},
     targets |-> <<>>, clean |-> FALSE]

Unlocked == [writer |-> "none", readers |-> {}]

NoStream ==
    [state |-> "none", targets |-> <<>>, duration |-> FALSE, count |-> 0,
     is_done |-> FALSE, blocked |-> FALSE]

Init ==
    /\ rooms = <<>>
    /\ live = {}
    /\ added = {}
    /\ call = NoCall
    /\ delivery = NoDelivery
    /\ stream = NoStream
    /\ futs = <<>>
    /\ runq = <<>>
    /\ yielded = <<>>
    /\ completed = <<>>
    /\ pkt = NoPacket
    /\ frame = NoFrame
    /\ wire = NoResult
    /\ decoded = NoResult
    /\ lock = Unlocked
    /\ th = [t \in Threads |-> IdleThread]
    /\ removed = [sid \in Sids |-> "no"]
    /\ evals = [t \in Threads |-> {}]

Idle == call.op = "none"

\* The caller takes the result; the next call may start.
Return ==
    /\ ~Idle
    /\ stream.state = "none"
    /\ call' = NoCall
    /\ delivery' = NoDelivery
    /\ UNCHANGED <<threadvars, codecvars, regvars, ackvars>>

\* A socket connects to / leaves the namespace.
Connect(sid) ==
    /\ Idle
    /\ sid \notin live
    /\ live' = live \cup {sid}
    /\ UNCHANGED <<threadvars, codecvars, rooms, added, call, delivery, ackvars>>

Disconnect(sid) ==
    /\ Idle
    /\ sid \in live
    /\ live' = live \ {sid}
    /\ UNCHANGED <<threadvars, codecvars, rooms, added, call, delivery, ackvars>>

AddAll(sid, rs) ==
    /\ Idle
    /\ rooms' = add_all(rooms, sid, rs)
    /\ added' = added \cup {<<sid, r>> : r \in Range(rs)}
    /\ UNCHANGED <<threadvars, codecvars, live, call, delivery, ackvars>>

Del(sid, rs) ==
    /\ Idle
    /\ rooms' = del(rooms, sid, rs)
    /\ added' = added \ {<<sid, r>> : r \in Range(rs)}
    /\ UNCHANGED <<threadvars, codecvars, live, call, delivery, ackvars>>

DelAll(sid) ==
    /\ Idle
    /\ rooms' = del_all(rooms, sid)
    /\ added' = {p \in added : p[1] # sid}
    /\ UNCHANGED <<threadvars, codecvars, live, call, delivery, ackvars>>

SocketRooms(sid) ==
    /\ Idle
    /\ call' = [op |-> "socket_rooms", opts |-> DefaultOptions, sid |-> sid,
                ret |-> socket_rooms(rooms, sid)]
    /\ UNCHANGED <<threadvars, codecvars, regvars, delivery, ackvars>>

SocketsCall(rs) ==
    /\ Idle
    /\ call' = [op |-> "sockets", opts |-> [DefaultOptions EXCEPT !.rooms = rs],
                sid |-> DefaultSid, ret |-> sockets(rooms, live, rs)]
    /\ UNCHANGED <<threadvars, codecvars, regvars, delivery, ackvars>>

FetchSockets(opts) ==
    /\ Idle
    /\ call' = [op |-> "fetch_sockets", opts |-> opts, sid |-> DefaultSid,
                ret |-> fetch_sockets(rooms, live, opts)]
    /\ UNCHANGED <<threadvars, codecvars, regvars, delivery, ackvars>>

\* broadcast(packet, binary, opts): apply_opts gives the Vec (in some order),
\* then the sends; `failing` are the sockets whose write fails.
Broadcast(opts, failing) ==
    /\ Idle
    /\ \E ts \in Orders(apply_opts(rooms, live, opts)) :
         LET r == broadcast(ts, failing)
         IN  /\ delivery' = [targets |-> ts, failing |-> failing,
                             sent |-> r.sent, result |-> r.result]
             /\ call' = [op |-> "broadcast", opts |-> opts, sid |-> DefaultSid,
                         ret |-> Range(ts)]
    /\ UNCHANGED <<threadvars, codecvars, regvars, ackvars>>

\* add_sockets(opts, rooms): apply_opts gives the Vec, in an order the caller
\* does not control; the call returns once join_all has run every add_all.
AddSockets(opts, rs) ==
    /\ Idle
    /\ \E ts \in Orders(apply_opts(rooms, live, opts)) :
         /\ rooms' = add_sockets(rooms, ts, rs)
         /\ added' = added \cup (Range(ts) \X Range(rs))
         /\ call' = [op |-> "add_sockets", opts |-> opts, sid |-> DefaultSid,
                     ret |-> Range(ts), rs |-> rs]
    /\ UNCHANGED <<threadvars, codecvars, live, delivery, ackvars>>

\* del_sockets(opts, rooms)
DelSockets(opts, rs) ==
    /\ Idle
    /\ \E ts \in Orders(apply_opts(rooms, live, opts)) :
         /\ rooms' = del_sockets(rooms, ts, rs)
         /\ added' = added \ (Range(ts) \X Range(rs))
         /\ call' = [op |-> "del_sockets", opts |-> opts, sid |-> DefaultSid,
                     ret |-> Range(ts), rs |-> rs]
    /\ UNCHANGED <<threadvars, codecvars, live, delivery, ackvars>>

\* disconnect_socket(opts): disconnect is requested on the resolved sockets in
\* the order of the Vec; `sent` lists the sockets it was requested on.
DisconnectSocket(opts, failing) ==
    /\ Idle
    /\ \E ts \in Orders(apply_opts(rooms, live, opts)) :
         LET r == disconnect_socket(ts, failing)
         IN  /\ delivery' = [targets |-> ts, failing |-> failing,
                             sent |-> r.sent, result |-> r.result]
             /\ call' = [op |-> "disconnect_socket", opts |-> opts, sid |-> DefaultSid,
                         ret |-> Range(ts)]
    /\ UNCHANGED <<threadvars, codecvars, regvars, ackvars>>

\* The futures of the send_with_ack calls are started inside the call.
ack_futs_eager(ts) == [sid \in Range(ts) |-> "pending"]

\* ack_futs is a lazy map over the sockets and each element an async block:
\* building the stream calls send_with_ack on no socket and polls no future.
ack_futs(ts) == [sid \in Range(ts) |-> "queued"]

\* The futures are detached from the stream: they outlive it.
drop_futs_detached(f) == f

\* The boxed stream owns the buffer_unordered adaptor, which owns every future
\* it has pushed: dropping the stream drops them, and a dropped send_with_ack
\* future waits for nothing. Futures never created stay uncreated; finished
\* ones keep what they returned.
drop_futs(f) ==
    [sid \in DOMAIN f |-> IF f[sid] \in {"pushed", "pending"} THEN "cancelled" ELSE f[sid]]

\* broadcast_with_ack(packet, binary, opts): the timeout is read off the flags,
\* apply_opts gives the Vec, and the stream over the futures is returned; no
\* future has been created yet.
BroadcastWithAck(opts) ==
    /\ Idle
    /\ stream.state = "none"
    /\ \E ts \in Orders(apply_opts(rooms, live, opts)) :
         /\ stream' = [state |-> "created", targets |-> ts,
                       duration |-> ("Timeout" \in opts.flags), count |-> Len(ts),
                       is_done |-> FALSE, blocked |-> FALSE]
         /\ futs' = ack_futs(ts)
         /\ call' = [op |-> "broadcast_with_ack", opts |-> opts, sid |-> DefaultSid,
                     ret |-> Range(ts)]
    /\ runq' = <<>>
    /\ yielded' = <<>>
    /\ completed' = <<>>
    /\ UNCHANGED <<threadvars, codecvars, regvars, delivery>>

\* The consumer polls the stream.
Poll ==
    /\ stream.state \in {"created", "running"}
    /\ LET n == poll_next(StreamState)
       IN  /\ stream' = n.stream
           /\ futs' = n.futs
           /\ runq' = n.runq
           /\ yielded' = n.yielded
    /\ UNCHANGED <<threadvars, codecvars, regvars, call, delivery, completed>>

\* The client's acknowledgment reaches a waiting send_with_ack: it decodes to
\* the ack payload or fails to; the future is woken.
AckArrives(sid, outcome) ==
    /\ stream.state = "running"
    /\ sid \in DOMAIN futs
    /\ futs[sid] = "pending"
    /\ futs' = [futs EXCEPT ![sid] = outcome]
    /\ runq' = Append(runq, sid)
    /\ completed' = Append(completed, sid)
    /\ UNCHANGED <<threadvars, codecvars, regvars, call, delivery, stream, yielded>>

\* The duration of Timeout(duration) elapses for a waiting send_with_ack.
TimeoutFires(sid) ==
    /\ stream.state = "running"
    /\ stream.duration
    /\ sid \in DOMAIN futs
    /\ futs[sid] = "pending"
    /\ futs' = [futs EXCEPT ![sid] = "timeout"]
    /\ runq' = Append(runq, sid)
    /\ completed' = Append(completed, sid)
    /\ UNCHANGED <<threadvars, codecvars, regvars, call, delivery, stream, yielded>>

\* The consumer drops the stream: the futures it still holds are dropped with it.
DropStream ==
    /\ stream.state \in {"created", "running", "done"}
    /\ stream' = [stream EXCEPT !.state = "dropped"]
    /\ futs' = drop_futs(futs)
    /\ runq' = <<>>
    /\ UNCHANGED <<threadvars, codecvars, regvars, call, delivery, yielded, completed>>

\* Nothing of the dropped stream is left; the next call may start.
Release ==
    /\ stream.state = "dropped"
    /\ stream' = NoStream
    /\ futs' = <<>>
    /\ runq' = <<>>
    /\ yielded' = <<>>
    /\ completed' = <<>>
    /\ call' = NoCall
    /\ UNCHANGED <<threadvars, codecvars, regvars, delivery>>

\* The packets handed to encode: every variant of PacketData, in every
\* namespace of CodecNamespaces.
SidKey == <<"s", "i", "d">>

CodecPayloads ==
    {JNum(1), JStr(<<"x">>), JArr(<<>>), JArr(<<JNum(1), JNum(2)>>),
     JObj(<< <<SidKey, JStr(<<"x">>)>> >>)}

CodecInners ==
    {PConnect(None), PConnect(Some(JObj(<< <<SidKey, JStr(<<"x">>)>> >>))),
     PDisconnect, PConnectError(<<"m">>), PAck(1), PBinaryAck(JArr(<<>>)),
     PBinaryEvent(<<"e">>, JArr(<<>>))}
    \cup {PEvent(<<"e">>, data) : data \in CodecPayloads}

CodecPackets == {Packet(inner, ns) : inner \in CodecInners, ns \in CodecNamespaces}

\* The texts handed to decode: <type>[<namespace>,][<ack id>]<payload>, with
\* no attachment count.
FramePayloads ==
    {<<>>, to_string(JObj(<<>>)), to_string(JArr(<<JStr(<<"e">>)>>)),
     to_string(JArr(<<JStr(<<"e">>), JNum(1), JNum(2)>>)),
     to_string(JObj(<< <<SidKey, JStr(<<"x">>)>> >>)),
     to_string(connect_error_value(<<"m">>))}

Frames ==
    [present : {TRUE}, index : FrameTypes, ns : {<<>>, <<"/", "c">>},
     ack : FrameAcks, payload : FramePayloads]

frame_text(f) ==
    <<f.index>> \o (IF f.ns # <<>> THEN f.ns \o <<",">> ELSE <<>>) \o f.ack \o f.payload

\* Either a packet is about to be encoded or a text has come in.
InitCodec ==
    /\ rooms = <<>>
    /\ live = {}
    /\ added = {}
    /\ call = NoCall
    /\ delivery = NoDelivery
    /\ stream = NoStream
    /\ futs = <<>>
    /\ runq = <<>>
    /\ yielded = <<>>
    /\ completed = <<>>
    /\ decoded = NoResult
    /\ lock = Unlocked
    /\ th = [t \in Threads |-> IdleThread]
    /\ removed = [sid \in Sids |-> "no"]
    /\ evals = [t \in Threads |-> {}]
    /\ \/ pkt \in CodecPackets /\ frame = NoFrame /\ wire = NoResult
       \/ pkt = NoPacket /\ frame \in Frames /\ wire = Ok(frame_text(frame))

\* packet.try_into()
Encode ==
    /\ pkt # NoPacket
    /\ wire = NoResult
    /\ wire' = encode(pkt)
    /\ UNCHANGED <<threadvars, regvars, call, delivery, ackvars, pkt, frame, decoded>>

\* Packet::try_from(text), on the text encode produced or on the one that came in.
Decode ==
    /\ wire.kind = "Ok"
    /\ decoded = NoResult
    /\ decoded' = decode(wire.value)
    /\ UNCHANGED <<threadvars, regvars, call, delivery, ackvars, pkt, frame, wire>>

NextCodec == Encode \/ Decode

SpecCodec == InitCodec /\ [][NextCodec]_vars

Next ==
    \/ Return
    \/ \E sid \in Sids : Connect(sid)
    \/ \E sid \in Sids : Disconnect(sid)
    \/ \E sid \in Sids, rs \in RoomLists : AddAll(sid, rs)
    \/ \E sid \in Sids, rs \in RoomLists : Del(sid, rs)
    \/ \E sid \in Sids : DelAll(sid)
    \/ \E sid \in Sids : SocketRooms(sid)
    \/ \E rs \in TargetLists : SocketsCall(rs)
    \/ \E opts \in MatchOptions : FetchSockets(opts)

Spec == Init /\ [][Next]_vars

NextBcast ==
    \/ Return
    \/ \E sid \in Sids : Connect(sid)
    \/ \E sid \in Sids : Disconnect(sid)
    \/ \E sid \in Sids, rs \in BcastRoomLists : AddAll(sid, rs)
    \/ \E sid \in Sids, rs \in BcastRoomLists : Del(sid, rs)
    \/ \E sid \in Sids : DelAll(sid)
    \/ \E opts \in BcastOptions, failing \in SUBSET Sids : Broadcast(opts, failing)
    \/ \E opts \in BcastOptions, failing \in SUBSET Sids : DisconnectSocket(opts, failing)

SpecBcast == Init /\ [][NextBcast]_vars

NextAck ==
    \/ \E sid \in Sids : Connect(sid)
    \/ \E sid \in Sids : Disconnect(sid)
    \/ \E sid \in Sids, rs \in AckRoomLists : AddAll(sid, rs)
    \/ \E sid \in Sids, rs \in AckRoomLists : Del(sid, rs)
    \/ \E sid \in Sids : DelAll(sid)
    \/ \E opts \in AckOptions : BroadcastWithAck(opts)
    \/ Poll
    \/ \E sid \in Sids, outcome \in {"ack", "mismatch"} : AckArrives(sid, outcome)
    \/ \E sid \in Sids : TimeoutFires(sid)
    \/ DropStream
    \/ Release

SpecAck == Init /\ [][NextAck]_vars

NextBulk ==
    \/ Return
    \/ \E sid \in Sids : Connect(sid)
    \/ \E sid \in Sids : Disconnect(sid)
    \/ \E sid \in Sids, rs \in BcastRoomLists : AddAll(sid, rs)
    \/ \E sid \in Sids, rs \in BcastRoomLists : Del(sid, rs)
    \/ \E sid \in Sids : DelAll(sid)
    \/ \E opts \in BulkOptions, rs \in BulkRoomLists : AddSockets(opts, rs)
    \/ \E opts \in BulkOptions, rs \in BulkRoomLists : DelSockets(opts, rs)

SpecBulk == Init /\ [][NextBulk]_vars

\* ------------------------------------------------- calls running concurrently

\* Both sockets are connected and the registry is empty.
InitThreads ==
    /\ rooms = <<>>
    /\ live = Sids
    /\ added = {}
    /\ call = NoCall
    /\ delivery = NoDelivery
    /\ stream = NoStream
    /\ futs = <<>>
    /\ runq = <<>>
    /\ yielded = <<>>
    /\ completed = <<>>
    /\ pkt = NoPacket
    /\ frame = NoFrame
    /\ wire = NoResult
    /\ decoded = NoResult
    /\ lock = Unlocked
    /\ th = [t \in Threads |-> IdleThread]
    /\ removed = [sid \in Sids |-> "no"]
    /\ evals = [t \in Threads |-> {}]

\* What the thread-level steps leave alone.
callvars == <<added, call, delivery, ackvars, codecvars>>

\* Thread u has a call in flight that may insert sid into a room.
AddInFlight(u, sid) ==
    \/ th[u].op = "add_all" /\ th[u].sid = sid
    \/ th[u].op = "add_sockets"

\* History kept for del_all: a del_all(sid) in flight stops being undisturbed
\* when thread t starts a call that may insert sid.
Disturb(t, new, sids) ==
    [u \in Threads |->
        IF u = t THEN new
        ELSE IF th[u].op = "del_all" /\ th[u].sid \in sids
        THEN [th[u] EXCEPT !.clean = FALSE]
        ELSE th[u]]

StartAddAll(t, sid, rs) ==
    /\ th[t].pc = "idle"
    /\ th' = Disturb(t, [IdleThread EXCEPT !.pc = "write_lock", !.op = "add_all",
                                           !.sid = sid, !.rs = rs, !.todo = rs],
                     {sid})
    /\ removed' = [removed EXCEPT ![sid] = "no"]
    /\ UNCHANGED <<rooms, live, lock, callvars>>

StartDel(t, sid, rs) ==
    /\ th[t].pc = "idle"
    /\ th' = [th EXCEPT ![t] = [IdleThread EXCEPT !.pc = "write_lock", !.op = "del",
                                                  !.sid = sid, !.rs = rs, !.todo = rs]]
    /\ UNCHANGED <<rooms, live, lock, removed, callvars>>

StartDelAll(t, sid) ==
    /\ th[t].pc = "idle"
    /\ th' = [th EXCEPT ![t] =
                [IdleThread EXCEPT !.pc = "write_lock", !.op = "del_all", !.sid = sid,
                                   !.clean = \A u \in Threads \ {t} : ~AddInFlight(u, sid)]]
    /\ removed' = [removed EXCEPT ![sid] = "no"]
    /\ UNCHANGED <<rooms, live, lock, callvars>>

StartSocketRooms(t, sid) ==
    /\ th[t].pc = "idle"
    /\ th' = [th EXCEPT ![t] = [IdleThread EXCEPT !.pc = "read_lock",
                                                  !.op = "socket_rooms", !.sid = sid]]
    /\ UNCHANGED <<rooms, live, lock, removed, callvars>>

\* fetch_sockets(opts) is apply_opts(opts), which starts with get_except_sids.
StartFetchSockets(t, opts) ==
    /\ th[t].pc = "idle"
    /\ th' = [th EXCEPT ![t] =
                [IdleThread EXCEPT !.pc = "except_lock", !.op = "fetch_sockets",
                                   !.opts = opts]]
    /\ UNCHANGED <<rooms, live, lock, removed, callvars>>

StartAddSockets(t, opts, rs) ==
    /\ th[t].pc = "idle"
    /\ th' = Disturb(t, [IdleThread EXCEPT !.pc = "except_lock", !.op = "add_sockets",
                                           !.opts = opts, !.rs = rs],
                     Sids)
    /\ removed' = [sid \in Sids |-> "no"]
    /\ UNCHANGED <<rooms, live, lock, callvars>>

\* self.rooms.write().unwrap(): granted when no guard is out. del_all walks
\* values_mut(), in the order the map happens to give.
AcquireWrite(t) ==
    /\ th[t].pc = "write_lock"
    /\ lock = Unlocked
    /\ lock' = [lock EXCEPT !.writer = t]
    /\ \E order \in Orders(DOMAIN rooms) :
         th' = [th EXCEPT ![t].pc = "writing", ![t].done = 0,
                          ![t].todo = IF th[t].op = "del_all" THEN order ELSE @]
    /\ UNCHANGED <<rooms, live, removed, callvars>>

\* The write guard is dropped after every pass through the loop.
after_write_step_unlocked(l) == [l EXCEPT !.writer = "none"]

\* The write guard is a local of the function: it lives through the loop.
after_write_step(l) == l

\* del_all visits the room and removes nothing.
values_mut_remove_skipped(m, room, sid) == m

\* for room in rooms_map.values_mut() { room.remove(&sid); }: one room.
values_mut_remove(m, room, sid) == [m EXCEPT ![room] = @ \ {sid}]

\* One pass through the loop of add_all, del or del_all.
write_step(m, op, room, sid) ==
    IF op = "del" THEN get_mut_remove(m, room, sid)
    ELSE IF op = "del_all" THEN values_mut_remove(m, room, sid)
    ELSE entry_insert(m, room, sid)

WriteStep(t) ==
    /\ th[t].pc = "writing"
    /\ th[t].todo # <<>>
    /\ rooms' = write_step(rooms, th[t].op, Head(th[t].todo), th[t].sid)
    /\ lock' = after_write_step(lock)
    /\ th' = [th EXCEPT ![t].todo = Tail(@), ![t].done = @ + 1]
    /\ UNCHANGED <<live, removed, callvars>>

\* The function returns and its write guard is dropped; add_sockets goes on
\* to the add_all of its next target.
ReleaseWrite(t) ==
    /\ th[t].pc = "writing"
    /\ th[t].todo = <<>>
    /\ lock' = [lock EXCEPT !.writer = "none"]
    /\ th' = [th EXCEPT ![t] =
                IF th[t].targets # <<>>
                THEN [th[t] EXCEPT !.pc = "write_lock", !.sid = Head(th[t].targets),
                                   !.targets = Tail(@), !.todo = th[t].rs, !.done = 0]
                ELSE IdleThread]
    /\ removed' = IF th[t].op = "del_all"
                  THEN [removed EXCEPT ![th[t].sid] =
                            IF th[t].clean THEN "clean" ELSE "dirty"]
                  ELSE removed
    /\ UNCHANGED <<rooms, live, callvars>>

\* self.rooms.read().unwrap(): granted when no writer holds the lock.
AcquireRead(t) ==
    /\ th[t].pc \in {"read_lock", "except_lock", "rooms_lock"}
    /\ lock.writer = "none"
    /\ lock' = [lock EXCEPT !.readers = @ \cup {t}]
    /\ th' = [th EXCEPT ![t].pc = CASE th[t].pc = "read_lock" -> "reading"
                                    [] th[t].pc = "except_lock" -> "except_read"
                                    [] th[t].pc = "rooms_lock" -> "rooms_read"]
    /\ UNCHANGED <<rooms, live, removed, callvars>>

\* socket_rooms reads the map and returns.
ReadSocketRooms(t) ==
    /\ th[t].pc = "reading"
    /\ lock' = [lock EXCEPT !.readers = @ \ {t}]
    /\ th' = [th EXCEPT ![t] = IdleThread]
    /\ UNCHANGED <<rooms, live, removed, callvars>>

\* get_except_sids reads the except rooms and returns, dropping its guard.
\* With no target room apply_opts then asks the namespace only.
ReadExcept(t) ==
    /\ th[t].pc = "except_read"
    /\ lock' = [lock EXCEPT !.readers = @ \ {t}]
    /\ LET opts == th[t].opts
           except_sids == get_except_sids(rooms, opts.except)
       IN  th' = [th EXCEPT ![t].except = except_sids,
                            ![t].pc = IF Len(opts.rooms) > 0 THEN "rooms_lock"
                                      ELSE "resolved",
                            ![t].ids = IF Len(opts.rooms) > 0 THEN {}
                                       ELSE IF "Broadcast" \in opts.flags
                                       THEN namespace_targets(rooms, live, opts, except_sids)
                                       ELSE single_target(rooms, live, opts, except_sids)]
    /\ UNCHANGED <<rooms, live, removed, callvars>>

\* apply_opts reads the target rooms under its own read guard.
ReadRooms(t) ==
    /\ th[t].pc = "rooms_read"
    /\ lock' = [lock EXCEPT !.readers = @ \ {t}]
    /\ th' = [th EXCEPT ![t].pc = "resolved",
                        ![t].ids = room_targets(rooms, live, th[t].opts, th[t].except)]
    /\ UNCHANGED <<rooms, live, removed, callvars>>

\* apply_opts has returned: fetch_sockets returns the sockets, add_sockets
\* starts on the add_all of its first target.
Resolved(t) ==
    /\ th[t].pc = "resolved"
    /\ \E ts \in Orders(th[t].ids) :
         th' = [th EXCEPT ![t] =
                  IF th[t].op = "add_sockets" /\ ts # <<>>
                  THEN [th[t] EXCEPT !.pc = "write_lock", !.sid = Head(ts),
                                     !.targets = Tail(ts), !.todo = th[t].rs]
                  ELSE IdleThread]
    /\ UNCHANGED <<rooms, live, lock, removed, callvars>>

\* The calls of the lock runs and their steps; no history of the matcher
\* queries is kept.
NextLock ==
    \/ \E t \in Threads, sid \in Sids, rs \in LockAddLists : StartAddAll(t, sid, rs)
          /\ UNCHANGED evals
    \/ \E t \in Threads, sid \in Sids, rs \in LockDelLists : StartDel(t, sid, rs)
          /\ UNCHANGED evals
    \/ \E t \in Threads, sid \in Sids : StartDelAll(t, sid)
          /\ UNCHANGED evals
    \/ \E t \in Threads, sid \in Sids : StartSocketRooms(t, sid)
          /\ UNCHANGED evals
    \/ \E t \in Threads, opts \in LockOptions : StartFetchSockets(t, opts)
          /\ UNCHANGED evals
    \/ \E t \in Threads : AcquireWrite(t) /\ UNCHANGED evals
    \/ \E t \in Threads : WriteStep(t) /\ UNCHANGED evals
    \/ \E t \in Threads : ReleaseWrite(t) /\ UNCHANGED evals
    \/ \E t \in Threads : AcquireRead(t) /\ UNCHANGED evals
    \/ \E t \in Threads : ReadSocketRooms(t) /\ UNCHANGED evals
    \/ \E t \in Threads : ReadExcept(t) /\ UNCHANGED evals
    \/ \E t \in Threads : ReadRooms(t) /\ UNCHANGED evals
    \/ \E t \in Threads : Resolved(t) /\ UNCHANGED evals

SpecLock == InitThreads /\ [][NextLock]_vars

\* History kept for a matcher query in flight: what one lookup gives on the
\* registry as it is when the query starts and after every change made to
\* it before apply_opts has returned.
SnapshotHistory ==
    evals' = [u \in Threads |->
                IF th'[u].op # "fetch_sockets" THEN {}
                ELSE IF th[u].op # "fetch_sockets"
                THEN {apply_opts(rooms, live, th'[u].opts)}
                ELSE IF th[u].pc # "resolved" /\ rooms' # rooms
                THEN evals[u] \cup {apply_opts(rooms', live, th[u].opts)}
                ELSE evals[u]]

\* The same calls and steps, with that history.
NextSnap ==
    \/ \E t \in Threads, sid \in Sids, rs \in LockAddLists : StartAddAll(t, sid, rs)
          /\ SnapshotHistory
    \/ \E t \in Threads, sid \in Sids, rs \in LockDelLists : StartDel(t, sid, rs)
          /\ SnapshotHistory
    \/ \E t \in Threads, sid \in Sids : StartDelAll(t, sid)
          /\ SnapshotHistory
    \/ \E t \in Threads, sid \in Sids : StartSocketRooms(t, sid)
          /\ SnapshotHistory
    \/ \E t \in Threads, opts \in LockOptions : StartFetchSockets(t, opts)
          /\ SnapshotHistory
    \/ \E t \in Threads : AcquireWrite(t) /\ SnapshotHistory
    \/ \E t \in Threads : WriteStep(t) /\ SnapshotHistory
    \/ \E t \in Threads : ReleaseWrite(t) /\ SnapshotHistory
    \/ \E t \in Threads : AcquireRead(t) /\ SnapshotHistory
    \/ \E t \in Threads : ReadSocketRooms(t) /\ SnapshotHistory
    \/ \E t \in Threads : ReadExcept(t) /\ SnapshotHistory
    \/ \E t \in Threads : ReadRooms(t) /\ SnapshotHistory
    \/ \E t \in Threads : Resolved(t) /\ SnapshotHistory

SpecSnap == InitThreads /\ [][NextSnap]_vars

\* The calls of the removal runs and their steps.
NextFinal ==
    \/ \E t \in Threads, sid \in Sids, rs \in FinalAddLists : StartAddAll(t, sid, rs)
          /\ UNCHANGED evals
    \/ \E t \in Threads, sid \in Sids : StartDelAll(t, sid)
          /\ UNCHANGED evals
    \/ \E t \in Threads, opts \in FinalOptions, rs \in FinalAddLists :
          StartAddSockets(t, opts, rs)
          /\ UNCHANGED evals
    \/ \E t \in Threads : AcquireWrite(t) /\ UNCHANGED evals
    \/ \E t \in Threads : WriteStep(t) /\ UNCHANGED evals
    \/ \E t \in Threads : ReleaseWrite(t) /\ UNCHANGED evals
    \/ \E t \in Threads : AcquireRead(t) /\ UNCHANGED evals
    \/ \E t \in Threads : ReadExcept(t) /\ UNCHANGED evals
    \/ \E t \in Threads : ReadRooms(t) /\ UNCHANGED evals
    \/ \E t \in Threads : Resolved(t) /\ UNCHANGED evals

SpecFinal == InitThreads /\ [][NextFinal]_vars

\* ------------------------------------------------------- registry and matcher

TypeOK ==
    /\ DOMAIN rooms \subseteq Rooms
    /\ \A room \in DOMAIN rooms : rooms[room] \subseteq Sids
    /\ live \subseteq Sids
    /\ added \subseteq Sids \X Rooms
    /\ call.opts \in BroadcastOptions

\* The members of the rooms a list names, read off the registry.
MembersOf(rs) == {sid \in Sids : \E r \in Range(rs) : r \in DOMAIN rooms /\ sid \in rooms[r]}

IsMatch == call.op = "fetch_sockets"

\* C1: socket_rooms(S) returns exactly the rooms S was added to by an add_all
\* and has not been removed from since by a del naming the room or a del_all(S).
C1_SocketRoomsExact ==
    call.op = "socket_rooms" => call.ret = {r \in Rooms : <<call.sid, r>> \in added}

\* C1 witness: socket_rooms returned exactly {R2} for a socket while every
\* other socket is in R1 and room E, emptied again by removals, is still a key.
C1_Witness ==
    /\ call.op = "socket_rooms"
    /\ call.ret = {"R2"}
    /\ DOMAIN rooms = Rooms
    /\ rooms["E"] = {}
    /\ rooms["R1"] = Sids \ {call.sid}

\* C2 (as claimed): with rooms non-empty and no flag set, the matcher resolves
\* to exactly the live sockets in (union of named rooms) minus (union of except
\* rooms).
C2_RoomTargetingNoFlag ==
    (IsMatch /\ Len(call.opts.rooms) > 0 /\ call.opts.flags = {})
        => call.ret = (MembersOf(call.opts.rooms) \ MembersOf(call.opts.except)) \cap live

\* C3 (as claimed): for non-empty rooms and sid = X, X live, in a named room
\* and in no except room, X is in the result iff the Broadcast flag is absent.
C3_SelfExclusionConditional ==
    (/\ IsMatch /\ Len(call.opts.rooms) > 0
     /\ call.opts.sid \in live
     /\ call.opts.sid \in MembersOf(call.opts.rooms)
     /\ call.opts.sid \notin MembersOf(call.opts.except))
        => (call.opts.sid \in call.ret <=> "Broadcast" \notin call.opts.flags)

\* C4: whenever rooms is non-empty, with or without the Broadcast flag, every
\* socket the matcher resolves is a member of at least one named room.
C4_RoomsTakePrecedence ==
    (call.op \in {"fetch_sockets", "sockets"} /\ Len(call.opts.rooms) > 0)
        => call.ret \subseteq MembersOf(call.opts.rooms)

\* C4 witness: a room-scoped call with the Broadcast flag resolved a socket
\* while a live socket outside the named rooms was left out.
C4_Witness ==
    /\ IsMatch /\ Len(call.opts.rooms) > 0
    /\ "Broadcast" \in call.opts.flags
    /\ call.ret # {}
    /\ \E sid \in live : sid \notin MembersOf(call.opts.rooms)
                          /\ sid \notin MembersOf(call.opts.except)
                          /\ sid # call.opts.sid

\* C5: with rooms empty and the Broadcast flag, the result is every live socket
\* minus the members of the except rooms; options.sid is not removed.
C5_NamespaceBroadcast ==
    (IsMatch /\ Len(call.opts.rooms) = 0 /\ "Broadcast" \in call.opts.flags)
        => call.ret = live \ MembersOf(call.opts.except)

\* C5 witness: a namespace-wide broadcast kept the live socket options.sid
\* names and dropped a live member of an except room.
C5_Witness ==
    /\ IsMatch /\ Len(call.opts.rooms) = 0 /\ "Broadcast" \in call.opts.flags
    /\ call.opts.sid \in call.ret
    /\ \E sid \in live : sid \in MembersOf(call.opts.except)

\* C6: with rooms empty and no Broadcast flag, the result is the socket
\* options.sid names if it is live and empty otherwise, whatever the registry
\* and the except list hold.
C6_SingleSocket ==
    (IsMatch /\ Len(call.opts.rooms) = 0 /\ "Broadcast" \notin call.opts.flags)
        => call.ret = (IF call.opts.sid \in live THEN {call.opts.sid} ELSE {})

\* C6 witness: the single target was resolved although it is a member of an
\* except room and another socket is live.
C6_Witness ==
    /\ IsMatch /\ Len(call.opts.rooms) = 0 /\ "Broadcast" \notin call.opts.flags
    /\ call.ret = {call.opts.sid}
    /\ call.opts.sid \in MembersOf(call.opts.except)
    /\ live # call.ret

\* C7 (as claimed): sockets(rooms) with rooms non-empty returns exactly the ids
\* of the live sockets that are members of at least one named room.
C7_SocketsOfRooms ==
    (call.op = "sockets" /\ Len(call.opts.rooms) > 0)
        => call.ret = MembersOf(call.opts.rooms) \cap live

\* ------------------------------------------------------------------ delivery

\* C8 (as claimed): broadcast attempts send exactly once on every socket the
\* matcher resolved, whichever sends fail, and returns the first failure
\* encountered if any send failed and success otherwise.
C8_BroadcastSendsToAll ==
    call.op = "broadcast" =>
        /\ \A sid \in Range(delivery.targets) :
              Cardinality({i \in DOMAIN delivery.sent : delivery.sent[i] = sid}) = 1
        /\ Range(delivery.sent) = Range(delivery.targets)
        /\ (delivery.result = 0) <=> (Range(delivery.targets) \cap delivery.failing = {})
        /\ delivery.result # 0 =>
              /\ delivery.result \in delivery.failing
              /\ \E i \in DOMAIN delivery.sent :
                    /\ delivery.sent[i] = delivery.result
                    /\ \A j \in 1..(i - 1) : delivery.sent[j] \notin delivery.failing

\* ----------------------------------------------------------- ack aggregation

\* C9: once the stream has been consumed to its end it has yielded exactly one
\* outcome per resolved target, each the outcome of that target's own future:
\* a timeout (only under a Timeout flag) for a target whose ack did not arrive,
\* the ack for every target that acknowledged; no failure ended the stream early.
C9_OneOutcomePerTarget ==
    stream.state = "done" =>
        /\ Len(yielded) = Len(stream.targets)
        /\ \A sid \in Range(stream.targets) :
              /\ futs[sid] \in Outcomes
              /\ Cardinality({i \in DOMAIN yielded : yielded[i][1] = sid}) = 1
              /\ \E i \in DOMAIN yielded : yielded[i] = <<sid, futs[sid]>>
              /\ futs[sid] = "timeout" => stream.duration

\* C9 witness: under a Timeout flag the stream ended after yielding first one
\* target's timeout and then another target's ack.
C9_Witness ==
    /\ stream.state = "done"
    /\ stream.duration
    /\ Len(yielded) >= 2
    /\ yielded[1][2] = "timeout"
    /\ yielded[2][2] = "ack"

\* C10: once polled, the stream has a request in flight for every target at
\* once; outcomes are yielded in the order the futures completed, not in the
\* order of the resolved list; and no poll returns Pending while a completed
\* outcome waits behind a target that has not completed.
C10_CompletionOrder ==
    /\ stream.state = "running" =>
          \A sid \in Range(stream.targets) : futs[sid] \notin {"queued", "pushed"}
    /\ Len(yielded) <= Len(completed)
    /\ \A i \in DOMAIN yielded : yielded[i][1] = completed[i]
    /\ ~stream.blocked

\* C10 witness: the second target of the resolved list has been yielded while
\* the first is still waiting for its ack.
C10_Witness ==
    /\ stream.state = "running"
    /\ Len(stream.targets) >= 2
    /\ Len(yielded) = 1
    /\ yielded[1][1] = stream.targets[2]
    /\ futs[stream.targets[1]] = "pending"

\* ------------------------------------------------ dropping the ack stream

\* C11: once the stream of broadcast_with_ack has been dropped, no per-target
\* wait is outstanding and no completed outcome is queued; nothing is yielded
\* or completed afterwards; and a wait is cancelled by no step other than the
\* drop of the stream.
C11_DropCancelsPending ==
    /\ [](stream.state = "dropped" =>
            /\ \A sid \in DOMAIN futs : futs[sid] \notin {"pushed", "pending"}
            /\ runq = <<>>)
    /\ [][stream.state = "dropped" =>
            \/ stream'.state = "none"
            \/ (yielded' = yielded /\ completed' = completed /\ futs' = futs)]_vars
    /\ [][\A sid \in DOMAIN futs :
            (sid \in DOMAIN futs' /\ futs[sid] # "cancelled" /\ futs'[sid] = "cancelled")
               => (stream.state # "dropped" /\ stream'.state = "dropped")]_vars

\* C11 witness: the stream was dropped after it had yielded one outcome, and
\* the wait of another target was cancelled by the drop.
C11_Witness ==
    /\ stream.state = "dropped"
    /\ Len(yielded) = 1
    /\ \E sid \in DOMAIN futs : futs[sid] = "cancelled"

\* ------------------------------------------- the ack stream is lazy

\* C19: until the returned stream is polled for the first time no resolved
\* target has an acknowledgment request: every future is still uncreated and
\* nothing has completed or been yielded; a stream dropped before its first
\* poll leaves every future uncreated; and a future leaves the uncreated state
\* only in a poll of the stream.
C19_DrivenByConsumption ==
    /\ [](stream.state = "created" =>
            /\ \A sid \in DOMAIN futs : futs[sid] = "queued"
            /\ runq = <<>> /\ yielded = <<>> /\ completed = <<>>)
    /\ [][(stream.state = "created" /\ stream'.state = "dropped") =>
            \A sid \in DOMAIN futs' : futs'[sid] = "queued"]_vars
    /\ [][(\E sid \in DOMAIN futs :
             sid \in DOMAIN futs' /\ futs[sid] = "queued" /\ futs'[sid] # "queued")
            => (stream.state \in {"created", "running"}
                /\ stream'.state \in {"running", "done"})]_vars

\* C19 witness: a stream over two resolved targets was dropped before any poll,
\* and neither target has been sent the packet.
C19_Witness ==
    /\ stream.state = "dropped"
    /\ Len(stream.targets) = 2
    /\ \A sid \in DOMAIN futs : futs[sid] = "queued"

\* -------------------------------------------------------- disconnect_socket

\* C13 (as claimed): disconnect_socket requests disconnect on every socket the
\* matcher resolved, whichever requests fail, and returns the first failure
\* encountered if any request failed and success otherwise.
C13_DisconnectsAll ==
    call.op = "disconnect_socket" =>
        /\ Range(delivery.sent) = Range(delivery.targets)
        /\ (delivery.result = 0) <=> (Range(delivery.targets) \cap delivery.failing = {})
        /\ delivery.result # 0 =>
              /\ delivery.result \in delivery.failing
              /\ \E i \in DOMAIN delivery.sent :
                    /\ delivery.sent[i] = delivery.result
                    /\ \A j \in 1..(i - 1) : delivery.sent[j] \notin delivery.failing

\* ------------------------------------------------- add_sockets, del_sockets

Member(m, sid, room) == room \in DOMAIN m /\ sid \in m[room]

\* C12: a call of add_sockets(options, rooms) made while nothing else touches
\* the registry resolves options against the registry from before the call,
\* leaves every resolved socket a member of every room of rooms and every
\* other (socket, room) membership as it was; del_sockets leaves no resolved
\* socket in any room of rooms and every other membership as it was; and
\* applying the per-socket mutations in any other order gives the same registry.
C12_BulkMembership ==
    [][/\ (call.op = "none" /\ call'.op = "add_sockets") =>
            /\ call'.ret = apply_opts(rooms, live, call'.opts)
            /\ \A sid \in Sids, room \in Rooms :
                  Member(rooms', sid, room) <=>
                     \/ Member(rooms, sid, room)
                     \/ (sid \in call'.ret /\ room \in Range(call'.rs))
            /\ \A ts \in Orders(call'.ret) : add_sockets(rooms, ts, call'.rs) = rooms'
       /\ (call.op = "none" /\ call'.op = "del_sockets") =>
            /\ call'.ret = apply_opts(rooms, live, call'.opts)
            /\ \A sid \in Sids, room \in Rooms :
                  Member(rooms', sid, room) <=>
                     /\ Member(rooms, sid, room)
                     /\ ~(sid \in call'.ret /\ room \in Range(call'.rs))
            /\ \A ts \in Orders(call'.ret) : del_sockets(rooms, ts, call'.rs) = rooms'
      ]_vars

\* C12 witness: add_sockets has resolved both sockets and returned, and both
\* are members of R1 and of E.
C12_Witness ==
    /\ call.op = "add_sockets"
    /\ call.ret = Sids
    /\ call.rs = <<"R1", "E">>
    /\ \A sid \in Sids : Member(rooms, sid, "R1") /\ Member(rooms, sid, "E")

\* -------------------------------------------------------------- packet codec

\* C14 (as claimed): a packet of a kind that both encodes and decodes
\* (Connect, Disconnect, Event, ConnectError), in any namespace, decodes from
\* its encoded text to the packet it was.
C14_RoundTrip ==
    (/\ pkt.inner.kind \in {"Connect", "Disconnect", "Event", "ConnectError"}
     /\ decoded # NoResult)
        => decoded = Ok(pkt)

\* C15 (as claimed): a text <type>[<namespace>,]<digits><payload> of type
\* Connect or Event decodes to what the same text without the digits decodes to.
C15_AckIdDiscarded ==
    (/\ frame.present
     /\ frame.index \in {"0", "2"}
     /\ decoded # NoResult)
        => decoded = decode(frame_text([frame EXCEPT !.ack = <<>>]))

\* C16 (as claimed): decoding a text of type 3, 5 or 6, and encoding an Ack,
\* BinaryEvent or BinaryAck packet, returns an error that is neither of the
\* two grammar errors, and no packet.
C16_UnimplementedIsError ==
    /\ (pkt.inner.kind \in {"Ack", "BinaryEvent", "BinaryAck"} /\ wire # NoResult)
          => (wire.kind = "Err"
              /\ wire.error \notin {"InvalidPacketType", "InvalidEventName"})
    /\ (frame.present /\ frame.index \in {"3", "5", "6"} /\ decoded # NoResult)
          => (decoded.kind = "Err"
              /\ decoded.error \notin {"InvalidPacketType", "InvalidEventName"})

\* ---------------------------------------------------------- concurrent calls

\* C17 (as claimed): the id set a resolution with target rooms computes is the
\* one a single lookup computes on some registry state that existed between
\* the start of the call and its end.
C17_SingleSnapshot ==
    \A t \in Threads :
        (th[t].op = "fetch_sockets" /\ th[t].pc = "resolved"
         /\ Len(th[t].opts.rooms) > 0)
            => th[t].ids \in evals[t]

\* A mutation on thread t has changed some of the rooms it is to change and
\* not yet all of them.
MidMutation(t) == th[t].pc = "writing" /\ th[t].done > 0 /\ th[t].todo # <<>>

\* Thread t holds a read guard.
Reading(t) == th[t].pc \in {"reading", "except_read", "rooms_read"}

\* Thread t waits for a lock it cannot be granted now.
Blocked(t) ==
    \/ th[t].pc = "write_lock" /\ lock # Unlocked
    \/ th[t].pc \in {"read_lock", "except_lock", "rooms_lock"} /\ lock.writer # "none"

\* C18: while a socket_rooms call or a matcher read holds its read guard no
\* add_all, del or del_all is partly applied; no two mutations are inside
\* their loops at once; the lock is held by one writer or by readers, never
\* both; and whenever calls are in flight one of them can take its next step.
C18_MutationsAtomic ==
    /\ \A t \in Threads : Reading(t) <=> t \in lock.readers
    /\ lock.writer # "none" => lock.readers = {}
    /\ \A t \in Threads : th[t].pc = "writing" => lock.writer = t
    /\ \A t, u \in Threads : Reading(t) => ~MidMutation(u)
    /\ \A t, u \in Threads : (th[t].pc = "writing" /\ th[u].pc = "writing") => t = u
    /\ (\E t \in Threads : th[t].pc # "idle")
          => \E t \in Threads : th[t].pc # "idle" /\ ~Blocked(t)

\* C18 witness: add_all(1, [R1, E]) has inserted socket 1 into R1 and not yet
\* into E, while the other thread's socket_rooms(1) waits for the read lock.
C18_Witness ==
    \E t, u \in Threads :
        /\ MidMutation(t) /\ th[t].op = "add_all" /\ th[t].sid = 1
        /\ Member(rooms, 1, "R1") /\ ~Member(rooms, 1, "E")
        /\ th[u].op = "socket_rooms" /\ th[u].sid = 1 /\ th[u].pc = "read_lock"

\* C20 (as claimed): once every call has returned, a socket whose del_all has
\* returned, with no add_all of it and no add_sockets started since that
\* return, is a member of no room.
C20_RemovalFinal ==
    (\A t \in Threads : th[t].pc = "idle")
        => \A sid \in Sids : removed[sid] # "no" => socket_rooms(rooms, sid) = {}

\* C20 (amended): a socket whose del_all has returned is a member of no room,
\* provided no add_all of it and no add_sockets was in flight when the
\* del_all started, and none has started since.
C20_RemovalFinalUndisturbed ==
    \A sid \in Sids : removed[sid] = "clean" => socket_rooms(rooms, sid) = {}

\* C20 witness: del_all(1) has returned undisturbed, having emptied socket 1
\* out of rooms that socket 2 is still in, while another call is in flight.
C20_Witness ==
    /\ removed[1] = "clean"
    /\ Member(rooms, 2, "R1") /\ Member(rooms, 2, "E")
    /\ \E t \in Threads : th[t].pc = "writing"

====
